---- MODULE Spec2Model ----
(***************************************************************************)
(* A model of the static-gratings tuning metrics of                        *)
(* allensdk/brain_observatory/ecephys/stimulus_analysis/static_gratings.py *)
(* (class StaticGratings, fit_sf_tuning, get_sfdi).                        *)
(*                                                                         *)
(* Numbers are held as integers: orientations in degrees, spatial          *)
(* frequencies and phases in hundredths, positions on the dense            *)
(* evaluation grid np.arange(0, 4.1, 0.1) in tenths of an axis index.      *)
(* A Python value that is either None or an object is a record             *)
(* [isNone, v]; a call's outcome is a record [exc, v] whose exc is "none"  *)
(* when the call returned.                                                 *)
(***************************************************************************)
EXTENDS Integers, Sequences, FiniteSets, TLC

VARIABLES
    stimulus_conditions,  \* condition id -> [Ori, SF, Phase] (input table)
    spike_mean,           \* <<unit id, condition id>> -> mean spike count (input table)
    unit_ids,             \* the unit-id sequence driving the metrics table
    self,                 \* the StaticGratings instance's cached attributes
    stats_runs,           \* how many times _get_stim_table_stats has run
    calls,                \* unit id -> per-function invocation counts made by metrics
    accesses,             \* operation -> how many times it has been asked for
    args,                 \* the arguments of the module-level function under call
    ret,                  \* the outcome of the last operation
    sweep_numbers,        \* simulation driver: the sweep-number sequence of main
    input_file,           \* simulation driver: sweep number -> what the input file holds
    output_file,          \* simulation driver: sweep number -> response written
    neuron,               \* simulation driver: the neuron object (its dt)
    pc,                   \* simulation driver: where main stands
    sweep_index,          \* simulation driver: position of the for loop in sweep_numbers
    data,                 \* simulation driver: local 'data' of simulate_sweep_from_file
    response,             \* simulation driver: local 'response' of simulate_sweep_from_file
    log,                  \* simulation driver: the warnings logged
    trace                 \* simulation driver: the steps taken so far, in order

driver ==
    <<sweep_numbers, input_file, output_file, neuron, pc, sweep_index, data, response,
      log, trace>>

vars ==
    <<stimulus_conditions, spike_mean, unit_ids, self, stats_runs, calls, accesses, args, ret,
      driver>>

inputs == <<stimulus_conditions, spike_mean, unit_ids, args>>

-----------------------------------------------------------------------------
(* Bounds of the model *)

\* the largest condition table the per-unit functions are called on
NumConds == 3

\* the largest mean spike count of a condition
MaxSpike == 1

\* the number of direct calls of a per-unit method made on one instance
MaxCalls == 1

\* the number of property accesses a session makes
MaxAccess == 2

UnitUniverse == {1, 2}

-----------------------------------------------------------------------------
(* Values *)

\* the 'null' marker of a blank condition's Ori / SF / Phase cell
Null == -1

_col_ori == "Ori"

_col_sf == "SF"

_col_phase == "Phase"

None == [isNone |-> TRUE, v |-> <<>>]

Some(x) == [isNone |-> FALSE, v |-> x]

Returned(x) == [exc |-> "none", v |-> x]

Raised(e) == [exc |-> e, v |-> <<>>]

\* the simulation driver before main is entered
DriverIdle ==
    /\ sweep_numbers = <<>>
    /\ input_file = <<>>
    /\ output_file = <<>>
    /\ neuron = [dt |-> None]
    /\ pc = "idle"
    /\ sweep_index = 0
    /\ data = None
    /\ response = None
    /\ log = <<>>
    /\ trace = <<>>

\* the blank condition and a grating condition
Blank == [Ori |-> Null, SF |-> Null, Phase |-> Null]

Grating(o, s, p) == [Ori |-> o, SF |-> s, Phase |-> p]

\* the rows a condition table is drawn from
CondRows ==
    { Blank, Grating(90, 4, 0), Grating(0, 4, 50), Grating(0, 2, 0) }

\* every condition table of NumConds conditions
CondTables == [1..NumConds -> CondRows]

\* the condition tables of the analysis sessions
SessionTables ==
    { <<Grating(90, 4, 0), Grating(0, 4, 50), Grating(0, 2, 0)>>,
      <<Blank, Grating(90, 2, 0), Grating(0, 2, 0)>>,
      <<Grating(0, 4, 0), Grating(0, 2, 50)>>,
      <<Blank>> }

-----------------------------------------------------------------------------
(* numpy / pandas helpers, computed as the library computes them *)

SetMin(S) == CHOOSE x \in S : \A y \in S : x <= y

RECURSIVE np_sort(_)
\* np.sort of the distinct values S: ascending
np_sort(S) == IF S = {} THEN <<>> ELSE <<SetMin(S)>> \o np_sort(S \ {SetMin(S)})

\* the one element of a one-element set: Only({ F(r) : r \in {e} }) is F(e) with e
\* evaluated once
Only(S) == CHOOSE y \in S : TRUE

RECURSIVE SeqSum(_)
SeqSum(s) == IF s = <<>> THEN 0 ELSE Head(s) + SeqSum(Tail(s))

\* Series.unique() of column col over the rows whose col cell is not 'null'
UniqueNonNull(col) ==
    { stimulus_conditions[c][col] :
        c \in { d \in DOMAIN stimulus_conditions : stimulus_conditions[d][col] # Null } }

\* stimulus_conditions.index[stimulus_conditions[col] == value].tolist():
\* the matching condition ids in table order
RECURSIVE IndexWhere(_, _, _)
IndexWhere(col, value, c) ==
    IF c > Len(stimulus_conditions) THEN <<>>
    ELSE (IF stimulus_conditions[c][col] = value THEN <<c>> ELSE <<>>)
         \o IndexWhere(col, value, c + 1)

-----------------------------------------------------------------------------
(* StaticGratings: construction and dimension discovery *)

\* __init__: every cached attribute starts as None
StaticGratingsInit ==
    [_orivals |-> None, _number_ori |-> None,
     _sfvals |-> None, _number_sf |-> None,
     _phasevals |-> None, _number_phase |-> None,
     _metrics |-> None]

\* An execution threads st = [self, stats_runs, calls] through the calls it makes.

\* _get_stim_table_stats: the three sorted axes and their counts.  The last
\* assignment of the method stores len(_sfvals) into _number_sf a second time;
\* _number_phase is not assigned.
_get_stim_table_stats(st) ==
    LET o == np_sort(UniqueNonNull(_col_ori))
        s == np_sort(UniqueNonNull(_col_sf))
        p == np_sort(UniqueNonNull(_col_phase))
    IN  [st EXCEPT !.self = [@ EXCEPT !._orivals = Some(o),
                                      !._number_ori = Some(Len(o)),
                                      !._sfvals = Some(s),
                                      !._number_sf = Some(Len(s)),
                                      !._phasevals = Some(p)],
                   !.stats_runs = @ + 1]

\* the six lazily computed properties: run the discovery when the attribute is
\* None, then return the attribute
Property(st, attr) ==
    LET st1 == IF st.self[attr].isNone THEN _get_stim_table_stats(st) ELSE st
    IN  [st |-> st1, val |-> st1.self[attr]]

orivals(st) == Property(st, "_orivals")

number_ori(st) == Property(st, "_number_ori")

sfvals(st) == Property(st, "_sfvals")

number_sf(st) == Property(st, "_number_sf")

phasevals(st) == Property(st, "_phasevals")

number_phase(st) == Property(st, "_number_phase")

-----------------------------------------------------------------------------
(* Preferred-value search *)

\* conditionwise_statistics.loc[unit_id].loc[condition_inds]['spike_mean'].mean(),
\* kept exact as the pair sum / count
SpikeMeanOver(unit_id, condition_inds) ==
    [s |-> SeqSum([k \in DOMAIN condition_inds |-> spike_mean[<<unit_id, condition_inds[k]>>]]),
     n |-> Len(condition_inds)]

\* a.s / a.n < b.s / b.n
MeanLess(a, b) == a.s * b.n < b.s * a.n

RECURSIVE idxmax_scan_last(_, _, _)
idxmax_scan_last(m, i, best) ==
    IF i > Len(m) THEN best
    ELSE idxmax_scan_last(m, i + 1, IF MeanLess(m[i], m[best]) THEN best ELSE i)

idxmax_last(m) == idxmax_scan_last(m, 2, 1)

RECURSIVE idxmax_scan(_, _, _)
idxmax_scan(m, i, best) ==
    IF i > Len(m) THEN best
    ELSE idxmax_scan(m, i + 1, IF MeanLess(m[best], m[i]) THEN i ELSE best)

\* DataFrame.idxmax(): the position of the first occurrence of the maximum
idxmax(m) == idxmax_scan(m, 2, 1)

CountCall(st, unit_id, fn) == [st EXCEPT !.calls[unit_id][fn] = @ + 1]

\* the body shared by _get_pref_sf, _get_pref_ori and _get_pref_phase: one mean
\* per axis value over the conditions showing that value, then idxmax, which
\* raises ValueError on an empty frame
PrefSearch(st, unit_id, col, axis) ==
    LET similar_conditions == [k \in DOMAIN axis |-> IndexWhere(col, axis[k], 1)]
        means == [k \in DOMAIN axis |-> SpikeMeanOver(unit_id, similar_conditions[k])]
    IN  [st |-> st,
         out |-> IF axis = <<>> THEN Raised("ValueError")
                 ELSE Returned(axis[idxmax(means)])]

_get_pref_sf(st, unit_id) ==
    LET a == sfvals(CountCall(st, unit_id, "_get_pref_sf"))
    IN  PrefSearch(a.st, unit_id, _col_sf, a.val.v)

_get_pref_ori(st, unit_id) ==
    LET a == orivals(CountCall(st, unit_id, "_get_pref_ori"))
    IN  PrefSearch(a.st, unit_id, _col_ori, a.val.v)

_get_pref_phase(st, unit_id) ==
    LET a == phasevals(CountCall(st, unit_id, "_get_pref_phase"))
    IN  PrefSearch(a.st, unit_id, _col_phase, a.val.v)

-----------------------------------------------------------------------------
(* Orientation selectivity *)

\* stimulus_analysis.deg2rad: the angle is kept as a tagged degree value
deg2rad(degs) == [k \in DOMAIN degs |-> <<"rad", degs[k]>>]

\* stimulus_analysis.osi: the magnitude of the response-weighted vector sum over
\* the summed response; undefined when the summed response is zero.  The value
\* is kept as the pair it is computed from.
osi(orivals_rad, tuning) ==
    IF SeqSum(tuning) = 0 THEN Raised("UndefinedIndexError")
    ELSE Returned(<<orivals_rad, tuning>>)

\* the ids of the conditions showing both pref_sf and pref_phase, in table order
RECURSIVE ConditionsAt(_, _, _)
ConditionsAt(pref_sf, pref_phase, c) ==
    IF c > Len(stimulus_conditions) THEN <<>>
    ELSE (IF /\ stimulus_conditions[c][_col_sf] = pref_sf
             /\ stimulus_conditions[c][_col_phase] = pref_phase
          THEN <<c>> ELSE <<>>)
         \o ConditionsAt(pref_sf, pref_phase, c + 1)

\* df.sort_values(by=['Ori']): insertion of each id after the ids whose Ori is
\* not larger (ids of equal Ori keep their table order)
RECURSIVE SortByOri(_)
SortByOri(ids) ==
    IF ids = <<>> THEN <<>>
    ELSE LET rest == SortByOri(Tail(ids))
             o == stimulus_conditions[Head(ids)][_col_ori]
             lower == SelectSeq(rest, LAMBDA d : stimulus_conditions[d][_col_ori] < o)
             upper == SelectSeq(rest, LAMBDA d : stimulus_conditions[d][_col_ori] >= o)
         IN  lower \o <<Head(ids)>> \o upper

_get_osi_sf_only(st, unit_id, pref_sf, pref_phase) ==
    LET a == orivals(CountCall(st, unit_id, "_get_osi"))
        ids == SortByOri(IndexWhere(_col_sf, pref_sf, 1))
    IN  [st |-> a.st,
         out |-> osi(deg2rad(a.val.v), [k \in DOMAIN ids |-> spike_mean[<<unit_id, ids[k]>>]])]

\* _get_osi: the unit's responses at (pref_sf, pref_phase), ordered by
\* orientation, handed to osi with the orientation axis in radians
_get_osi(st, unit_id, pref_sf, pref_phase) ==
    LET a == orivals(CountCall(st, unit_id, "_get_osi"))
        condition_inds == ConditionsAt(pref_sf, pref_phase, 1)
        ids == SortByOri(condition_inds)
        tuning == [k \in DOMAIN ids |-> spike_mean[<<unit_id, ids[k]>>]]
    IN  [st |-> a.st, out |-> osi(deg2rad(a.val.v), tuning)]

-----------------------------------------------------------------------------
(* The metrics table *)

\* METRICS_COLUMNS, in order
METRICS_COLUMNS ==
    << "pref_sf_sg", "pref_ori_sg", "pref_phase_sg", "g_osi_sg", "time_to_peak_sg",
       "firing_rate_sg", "reliability_sg", "fano_sg", "lifetime_sparseness_sg",
       "run_pval_sg", "run_mod_sg" >>

ColumnNames == { METRICS_COLUMNS[k] : k \in DOMAIN METRICS_COLUMNS }

\* the columns a spatial-frequency fit would add to a row
FitColumns == { "fit_sf_ind", "fit_sf", "sf_low_cutoff", "sf_high_cutoff" }

\* the columns metrics fills from this class's own methods, in the order it fills them
OwnColumns_without_osi == << "pref_sf_sg", "pref_ori_sg", "pref_phase_sg" >>

OwnColumns == << "pref_sf_sg", "pref_ori_sg", "pref_phase_sg", "g_osi_sg" >>

\* the columns metrics fills from the base class's per-unit functions
CollaboratorColumns ==
    << "time_to_peak_sg", "firing_rate_sg", "reliability_sg", "fano_sg",
       "lifetime_sparseness_sg", "run_pval_sg", "run_mod_sg" >>

\* an np.empty cell / a cell a value was written to
Uninit == [uninit |-> TRUE, v |-> <<>>]

Cell(x) == [uninit |-> FALSE, v |-> x]

\* StimulusAnalysis.empty_metrics_table: a frame indexed by unit_ids with the
\* METRICS_COLUMNS, its cells not yet written
empty_metrics_table ==
    [index |-> unit_ids,
     cols |-> [c \in ColumnNames |-> [k \in DOMAIN unit_ids |-> Uninit]]]

Loc_first_row(df, unit, col) == df.cols[col][1].v

\* metrics_df.loc[unit][col]: the cell of the row labelled unit
Loc(df, unit, col) ==
    LET k == CHOOSE j \in DOMAIN df.index : df.index[j] = unit
    IN  df.cols[col][k].v

\* one cell of one of the class's own columns
OwnCell(st, df, col, unit) ==
    CASE col = "pref_sf_sg" -> _get_pref_sf(st, unit)
      [] col = "pref_ori_sg" -> _get_pref_ori(st, unit)
      [] col = "pref_phase_sg" -> _get_pref_phase(st, unit)
      [] col = "g_osi_sg" ->
            _get_osi(st, unit, Loc(df, unit, "pref_sf_sg"), Loc(df, unit, "pref_phase_sg"))

\* [f(unit) for unit in unit_ids]: the units in sequence order, stopping at the
\* first call that raises
RECURSIVE ListComprehension(_, _, _, _, _)
ListComprehension(st, df, col, k, acc) ==
    IF k > Len(unit_ids) THEN [st |-> st, out |-> Returned(acc)]
    ELSE Only({ IF r.out.exc # "none" THEN [st |-> r.st, out |-> r.out]
                ELSE ListComprehension(r.st, df, col, k + 1, Append(acc, Cell(r.out.v))) :
                r \in { OwnCell(st, df, col, unit_ids[k]) } })

\* metrics_df[col] = [...] for the own columns, one after the other
RECURSIVE FillOwnColumns(_, _, _)
FillOwnColumns(st, df, c) ==
    IF c > Len(OwnColumns) THEN [st |-> st, out |-> Returned(df)]
    ELSE Only({ IF r.out.exc # "none" THEN r
                ELSE FillOwnColumns(r.st, [df EXCEPT !.cols[OwnColumns[c]] = r.out.v], c + 1) :
                r \in { ListComprehension(st, df, OwnColumns[c], 1, <<>>) } })

\* the collaborator columns: collab[unit] is what the base class's functions
\* return for the unit (a number, or NaN), tagged with the column it is written to
FillCollaboratorColumns(df, collab) ==
    [df EXCEPT !.cols =
        [c \in ColumnNames |->
            IF \E k \in DOMAIN CollaboratorColumns : CollaboratorColumns[k] = c
            THEN [k \in DOMAIN unit_ids |-> Cell(<<c, unit_ids[k], collab[unit_ids[k]]>>)]
            ELSE @[c]]]

\* the body of the metrics property under "if self._metrics is None"
ComputeMetrics(st, collab) ==
    Only({ IF r.out.exc # "none" THEN r
           ELSE [st |-> [r.st EXCEPT !.self._metrics =
                                         Some(FillCollaboratorColumns(r.out.v, collab))],
                 out |-> Returned(<<>>)] :
           r \in { FillOwnColumns(st, empty_metrics_table, 1) } })

metrics_recompute(st, collab) ==
    Only({ IF r.out.exc # "none" THEN r
           ELSE [st |-> r.st, out |-> Returned(r.st.self._metrics.v)] :
           r \in { ComputeMetrics(st, collab) } })

\* the metrics property: compute and store the table when _metrics is None,
\* then return _metrics
metrics(st, collab) ==
    Only({ IF r.out.exc # "none" THEN r
           ELSE [st |-> r.st, out |-> Returned(r.st.self._metrics.v)] :
           r \in { IF st.self._metrics.isNone THEN ComputeMetrics(st, collab)
                   ELSE [st |-> st, out |-> Returned(<<>>)] } })

-----------------------------------------------------------------------------
(* The analysis session: a StaticGratings instance and accesses of its properties *)

NoCalls ==
    [u \in UnitUniverse |->
        [f \in {"_get_pref_sf", "_get_pref_ori", "_get_pref_phase", "_get_osi",
                "fit_sf_tuning"} |-> 0]]

\* unit-id sequences without repetition
UnitSeqs ==
    { <<>> } \cup { <<u>> : u \in UnitUniverse }
    \cup { q \in { <<u, w>> : u \in UnitUniverse, w \in UnitUniverse } : q[1] # q[2] }

\* the six axis properties, by the attribute each returns
AxisAttributes ==
    {"_orivals", "_number_ori", "_sfvals", "_number_sf", "_phasevals", "_number_phase"}

\* the per-unit methods and the discovery, when called directly
DirectCalls ==
    {"_get_stim_table_stats", "_get_pref_sf", "_get_pref_ori", "_get_pref_phase", "_get_osi"}

Operations == AxisAttributes \cup {"metrics"} \cup DirectCalls

RECURSIVE SumOver(_, _)
SumOver(f, S) ==
    IF S = {} THEN 0
    ELSE LET x == CHOOSE y \in S : TRUE IN f[x] + SumOver(f, S \ {x})

Total(f) == SumOver(f, DOMAIN f)

Here == [self |-> self, stats_runs |-> stats_runs, calls |-> calls]

\* the state after an execution that ended in state st with outcome out
Becomes(st, kind, out) ==
    /\ self' = st.self
    /\ stats_runs' = st.stats_runs
    /\ calls' = st.calls
    /\ accesses' = [accesses EXCEPT ![kind] = @ + 1]
    /\ ret' = [kind |-> kind, exc |-> out.exc, v |-> out.v]
    /\ UNCHANGED <<inputs, driver>>

SeqRange(q) == { q[k] : k \in DOMAIN q }

\* a freshly constructed instance over the given inputs
InitWith(tables, units, spikes) ==
    /\ stimulus_conditions \in tables
    /\ unit_ids \in units
    /\ spike_mean \in [SeqRange(unit_ids) \X DOMAIN stimulus_conditions -> spikes]
    /\ args = <<>>
    /\ self = StaticGratingsInit
    /\ stats_runs = 0
    /\ calls = NoCalls
    /\ accesses = [k \in Operations |-> 0]
    /\ ret = [kind |-> "init", exc |-> "none", v |-> <<>>]
    /\ DriverIdle

Init == InitWith(SessionTables, UnitSeqs, {0, 1})

AccessProperty(attr) ==
    /\ Total(accesses) < MaxAccess
    /\ \E r \in { Property(Here, attr) } : Becomes(r.st, attr, Returned(r.val))

AccessOrivals == AccessProperty("_orivals")

AccessNumberOri == AccessProperty("_number_ori")

AccessSfvals == AccessProperty("_sfvals")

AccessNumberSf == AccessProperty("_number_sf")

AccessPhasevals == AccessProperty("_phasevals")

AccessNumberPhase == AccessProperty("_number_phase")

AccessMetrics ==
    /\ Total(accesses) < MaxAccess
    /\ \E collab \in [UnitUniverse -> {"NaN", "number"}] :
          \E r \in { metrics(Here, collab) } : Becomes(r.st, "metrics", r.out)

Next ==
    \/ AccessOrivals
    \/ AccessNumberOri
    \/ AccessSfvals
    \/ AccessNumberSf
    \/ AccessPhasevals
    \/ AccessNumberPhase
    \/ AccessMetrics

Spec == Init /\ [][Next]_vars

-----------------------------------------------------------------------------
(* The per-unit methods called directly on a fresh instance, over every         *)
(* condition table of NumConds conditions                                       *)

InitCalls == InitWith(CondTables, {<<1>>}, 0..MaxSpike)

CallGetStimTableStats ==
    /\ Total(accesses) < MaxCalls
    /\ Becomes(_get_stim_table_stats(Here), "_get_stim_table_stats", Returned(<<>>))

CallGetPrefSf ==
    /\ Total(accesses) < MaxCalls
    /\ \E unit \in SeqRange(unit_ids) :
          \E r \in { _get_pref_sf(Here, unit) } :
             Becomes(r.st, "_get_pref_sf", [exc |-> r.out.exc, v |-> <<unit, r.out.v>>])

CallGetPrefOri ==
    /\ Total(accesses) < MaxCalls
    /\ \E unit \in SeqRange(unit_ids) :
          \E r \in { _get_pref_ori(Here, unit) } :
             Becomes(r.st, "_get_pref_ori", [exc |-> r.out.exc, v |-> <<unit, r.out.v>>])

CallGetPrefPhase ==
    /\ Total(accesses) < MaxCalls
    /\ \E unit \in SeqRange(unit_ids) :
          \E r \in { _get_pref_phase(Here, unit) } :
             Becomes(r.st, "_get_pref_phase", [exc |-> r.out.exc, v |-> <<unit, r.out.v>>])

\* _get_osi with the unit's preferred spatial frequency and preferred phase, as
\* metrics calls it
CallGetOsi ==
    /\ Total(accesses) < MaxCalls
    /\ \E unit \in SeqRange(unit_ids) :
          \E s \in { _get_pref_sf(Here, unit) } :
             \E p \in { _get_pref_phase(s.st, unit) } :
                /\ s.out.exc = "none"
                /\ p.out.exc = "none"
                /\ \E r \in { _get_osi(p.st, unit, s.out.v, p.out.v) } :
                      Becomes(r.st, "_get_osi",
                              [exc |-> r.out.exc, v |-> <<unit, s.out.v, p.out.v, r.out.v>>])

NextCalls ==
    \/ CallGetStimTableStats
    \/ CallGetPrefSf
    \/ CallGetPrefOri
    \/ CallGetPrefPhase
    \/ CallGetOsi

SpecCalls == InitCalls /\ [][NextCalls]_vars

-----------------------------------------------------------------------------
(* fit_sf_tuning *)

\* the longest spatial-frequency axis fit_sf_tuning is called on
MaxSf == 5

\* np.arange(0., 4.1, 0.1) has the samples 0..GridLast, sample i standing for
\* the axis index i / 10
GridLast == 40

\* the literal high_cut_ind is compared with
HighCutLimit == 4

\* the fixed-point unit of a curve value
Scale == 1000000

\* round(10^6 * exp(-(d/10)^2 / (2 * 0.1^2))) for d = 0..46 tenths from the centre
GaussSigma01 ==
    << 1000000, 606531, 135335, 11109, 335, 4, 0, 0, 0, 0, 0, 0, 0, 0, 0, 0, 0, 0, 0,
       0, 0, 0, 0, 0, 0, 0, 0, 0, 0, 0, 0, 0, 0, 0, 0, 0, 0, 0, 0, 0, 0, 0, 0, 0, 0, 0,
       0 >>

\* round(10^6 * exp(-(d/10)^2 / (2 * 0.3^2))) for d = 0..46 tenths from the centre
GaussSigma03 ==
    << 1000000, 945959, 800737, 606531, 411112, 249352, 135335, 65729, 28566, 11109,
       3866, 1204, 335, 84, 19, 4, 1, 0, 0, 0, 0, 0, 0, 0, 0, 0, 0, 0, 0, 0, 0, 0, 0,
       0, 0, 0, 0, 0, 0, 0, 0, 0, 0, 0, 0, 0, 0 >>

\* round(10^6 * exp(-(d/10)^2 / (2 * 1.0^2))) for d = 0..46 tenths from the centre
GaussSigma10 ==
    << 1000000, 995012, 980199, 955997, 923116, 882497, 835270, 782705, 726149, 666977,
       606531, 546074, 486752, 429557, 375311, 324652, 278037, 235746, 197899, 164474,
       135335, 110251, 88922, 71005, 56135, 43937, 34047, 26121, 19841, 14921, 11109,
       8189, 5976, 4318, 3089, 2187, 1534, 1065, 732, 498, 335, 224, 148, 97, 63, 40,
       25 >>

\* round(10^6 * exp(-(d/10)^2 / (2 * 3.0^2))) for d = 0..46 tenths from the centre
GaussSigma30 ==
    << 1000000, 999445, 997780, 995012, 991151, 986207, 980199, 973145, 965069, 955997,
       945959, 934987, 923116, 910384, 896830, 882497, 867428, 851671, 835270, 818276,
       800737, 782705, 764228, 745359, 726149, 706648, 686908, 666977, 646905, 626741,
       606531, 586320, 566154, 546074, 526122, 506336, 486752, 467407, 448332, 429557,
       411112, 393022, 375311, 358000, 341108, 324652, 308647 >>

\* round(10^6 * exp(-(2.0) * i/10)) for the grid samples i = 0..40
ExpDecay20 ==
    << 1000000, 818731, 670320, 548812, 449329, 367879, 301194, 246597, 201897, 165299,
       135335, 110803, 90718, 74274, 60810, 49787, 40762, 33373, 27324, 22371, 18316,
       14996, 12277, 10052, 8230, 6738, 5517, 4517, 3698, 3028, 2479, 2029, 1662, 1360,
       1114, 912, 747, 611, 500, 410, 335 >>

\* round(10^6 * exp(-(0.5) * i/10)) for the grid samples i = 0..40
ExpDecay05 ==
    << 1000000, 951229, 904837, 860708, 818731, 778801, 740818, 704688, 670320, 637628,
       606531, 576950, 548812, 522046, 496585, 472367, 449329, 427415, 406570, 386741,
       367879, 349938, 332871, 316637, 301194, 286505, 272532, 259240, 246597, 234570,
       223130, 212248, 201897, 192050, 182684, 173774, 165299, 157237, 149569, 142274,
       135335 >>

\* round(10^6 * exp(-(-0.5) * i/10)) for the grid samples i = 0..40
ExpGrowth05 ==
    << 1000000, 1051271, 1105171, 1161834, 1221403, 1284025, 1349859, 1419068, 1491825,
       1568312, 1648721, 1733253, 1822119, 1915541, 2013753, 2117000, 2225541, 2339647,
       2459603, 2585710, 2718282, 2857651, 3004166, 3158193, 3320117, 3490343, 3669297,
       3857426, 4055200, 4263115, 4481689, 4711470, 4953032, 5206980, 5473947, 5754603,
       6049647, 6359820, 6685894, 7028688, 7389056 >>

\* floating-point results: NaN, or a number tagged with what it was computed from
NaN == [kind |-> "nan", v |-> 0]

\* pref_sf_index itself
GivenIndex(i) == [kind |-> "pref_sf_index", v |-> i]

\* sf_values[pref_sf_index]
GivenValue(x) == [kind |-> "sf_values", v |-> x]

\* popt[1], in tenths of an index
FitCentre(x0) == [kind |-> "popt[1]", v |-> x0]

\* 0.02 * np.power(2, x), x in tenths of an index
Octave(x) == [kind |-> "0.02*2^", v |-> x]

Abs(x) == IF x < 0 THEN -x ELSE x

GaussTable(sigma) ==
    CASE sigma = 1 -> GaussSigma01
      [] sigma = 3 -> GaussSigma03
      [] sigma = 10 -> GaussSigma10
      [] sigma = 30 -> GaussSigma30

ExpTable(b) ==
    CASE b = 20 -> ExpDecay20
      [] b = 5 -> ExpDecay05
      [] b = -5 -> ExpGrowth05

\* gauss_function at grid sample i: a * exp(-(x - x0)^2 / (2 * sigma^2)), with
\* x0 and sigma in tenths of an index
gauss_function(i, popt) == popt[1] * GaussTable(popt[3])[Abs(i - popt[2]) + 1]

\* exp_function at grid sample i: a * exp(-b * x) + c, with b in tenths
exp_function(i, popt) == popt[1] * ExpTable(popt[2])[i + 1] + popt[3] * Scale

\* the Gaussian parameters (a, x0, sigma) a fit may return: a flat curve, peaks
\* at and left of the first sample, narrow and wide peaks inside the grid,
\* peaks near and beyond the last sample
GaussFits ==
    { <<0, 20, 10>>, <<1, 0, 3>>, <<1, -5, 10>>, <<1, 1, 1>>, <<1, 14, 3>>,
      <<1, 10, 10>>, <<1, 20, 10>>, <<1, 20, 30>>, <<1, 26, 3>>, <<1, 30, 10>>,
      <<1, 38, 10>>, <<1, 45, 10>> }

\* the exponential parameters (a, b, c) a fit may return: decays, a saturating
\* rise, a growth, a flat curve
ExpFits ==
    { <<1, 20, 0>>, <<1, 5, 1>>, <<-1, 20, 1>>, <<1, -5, 0>>, <<0, 20, 1>> }

\* scipy.optimize.curve_fit of a three-parameter function to m points: it
\* raises when there are fewer points than parameters or when maxfev is
\* exhausted, and otherwise returns the parameters
curve_fit(fits, m) ==
    IF m < 3 THEN { Raised("TypeError") }
    ELSE { Raised("RuntimeError") } \cup { Returned(popt) : popt \in fits }

\* ndarray.argmax() / argmin() over the samples S: the first extremum
argmax(f, S) ==
    CHOOSE i \in S : /\ \A j \in S : f[j] <= f[i]
                     /\ \A j \in S : j < i => f[j] < f[i]

argmin(f, S) ==
    CHOOSE i \in S : /\ \A j \in S : f[j] >= f[i]
                     /\ \A j \in S : j < i => f[j] > f[i]

\* np.abs(sf_prediction - (sf_prediction.max() / 2.)), doubled
HalfMaxDistance(pred) ==
    [i \in DOMAIN pred |-> Abs(2 * pred[i] - pred[argmax(pred, DOMAIN pred)])]

\* [:sf_prediction.argmax()].argmin(); argmin raises on the empty slice
low_cut_ind(pred) ==
    LET top == argmax(pred, DOMAIN pred)
    IN  IF top = 0 THEN Raised("ValueError")
        ELSE Returned(argmin(HalfMaxDistance(pred), 0..(top - 1)))

\* [sf_prediction.argmax():].argmin() + sf_prediction.argmax()
high_cut_ind(pred) ==
    LET top == argmax(pred, DOMAIN pred)
    IN  argmin(HalfMaxDistance(pred), top..GridLast)

Outputs(fit_sf_ind, fit_sf, sf_low_cutoff, sf_high_cutoff, failed, popt) ==
    [out |-> <<fit_sf_ind, fit_sf, sf_low_cutoff, sf_high_cutoff>>,
     failed |-> failed, popt |-> popt]

\* the branch of an interior preferred index: a Gaussian fit; fit is what
\* curve_fit did.  The outputs start as NaN and keep what was assigned before
\* an exception was caught.
FitInterior(sf_values, pref_sf_index, fit) ==
    IF fit.exc # "none" THEN Outputs(NaN, NaN, NaN, NaN, "curve_fit", <<>>)
    ELSE LET popt == fit.v
             sf_prediction == [i \in 0..GridLast |-> gauss_function(i, popt)]
             low == low_cut_ind(sf_prediction)
             high == high_cut_ind(sf_prediction)
             fit_sf_ind == FitCentre(popt[2])
             fit_sf == Octave(popt[2])
         IN  IF low.exc # "none"
             THEN Outputs(fit_sf_ind, fit_sf, NaN, NaN, "half_max", popt)
             ELSE IF low.v > 0
             THEN Outputs(fit_sf_ind, fit_sf, Octave(low.v), NaN, "none", popt)
             ELSE IF high < HighCutLimit
             THEN Outputs(fit_sf_ind, fit_sf, NaN, Octave(high), "none", popt)
             ELSE Outputs(fit_sf_ind, fit_sf, NaN, NaN, "none", popt)

FitBoundary_assign_after_fit(sf_values, pref_sf_index, fit) ==
    IF fit.exc # "none" THEN Outputs(NaN, NaN, NaN, NaN, "curve_fit", <<>>)
    ELSE LET sf_prediction == [i \in 0..GridLast |-> exp_function(i, fit.v)]
             low == low_cut_ind(sf_prediction)
             fit_sf_ind == GivenIndex(pref_sf_index)
             fit_sf == GivenValue(sf_values[pref_sf_index + 1])
         IN  IF pref_sf_index = 0
             THEN Outputs(fit_sf_ind, fit_sf, NaN, Octave(high_cut_ind(sf_prediction)),
                          "none", fit.v)
             ELSE IF low.exc # "none"
             THEN Outputs(fit_sf_ind, fit_sf, NaN, NaN, "half_max", fit.v)
             ELSE Outputs(fit_sf_ind, fit_sf, Octave(low.v), NaN, "none", fit.v)

\* the branch of a boundary preferred index: the given index and value are
\* reported, then an exponential fit gives the high cutoff when the index is 0
\* and the low cutoff otherwise
FitBoundary(sf_values, pref_sf_index, fit) ==
    LET fit_sf_ind == GivenIndex(pref_sf_index)
        fit_sf == GivenValue(sf_values[pref_sf_index + 1])
    IN  IF fit.exc # "none" THEN Outputs(fit_sf_ind, fit_sf, NaN, NaN, "curve_fit", <<>>)
        ELSE LET sf_prediction == [i \in 0..GridLast |-> exp_function(i, fit.v)]
                 low == low_cut_ind(sf_prediction)
             IN  IF pref_sf_index = 0
                 THEN Outputs(fit_sf_ind, fit_sf, NaN, Octave(high_cut_ind(sf_prediction)),
                              "none", fit.v)
                 ELSE IF low.exc # "none"
                 THEN Outputs(fit_sf_ind, fit_sf, NaN, NaN, "half_max", fit.v)
                 ELSE Outputs(fit_sf_ind, fit_sf, Octave(low.v), NaN, "none", fit.v)

\* pref_sf_index in range(1, len(sf_values) - 1)
IsInterior(sf_values, pref_sf_index) ==
    pref_sf_index >= 1 /\ pref_sf_index < Len(sf_values) - 1

\* fit_sf_tuning, given what its curve_fit call does; the responses enter only
\* through curve_fit
fit_sf_tuning(sf_values, pref_sf_index, fit) ==
    IF IsInterior(sf_values, pref_sf_index)
    THEN FitInterior(sf_values, pref_sf_index, fit)
    ELSE FitBoundary(sf_values, pref_sf_index, fit)

\* the axis of n octave-spaced spatial frequencies 0.02, 0.04, ... in hundredths
SfAxis(n) == [k \in 1..n |-> 2 ^ k]

\* a call of a module-level function on arguments drawn by the initial state
InitFunction(argsets) ==
    /\ stimulus_conditions = <<>>
    /\ unit_ids = <<>>
    /\ spike_mean = <<>>
    /\ self = StaticGratingsInit
    /\ stats_runs = 0
    /\ calls = NoCalls
    /\ accesses = [k \in Operations |-> 0]
    /\ args \in argsets
    /\ ret = [kind |-> "init", exc |-> "none", v |-> <<>>]
    /\ DriverIdle

FitArgs ==
    { [sf_values |-> SfAxis(n), pref_sf_index |-> i] :
        n \in 1..MaxSf, i \in 0..(MaxSf - 1) }

InitFit == InitFunction({ a \in FitArgs : a.pref_sf_index < Len(a.sf_values) })

CallFitInterior ==
    /\ ret.kind = "init"
    /\ IsInterior(args.sf_values, args.pref_sf_index)
    /\ \E fit \in curve_fit(GaussFits, Len(args.sf_values)) :
          ret' = [kind |-> "fit_sf_tuning", exc |-> "none",
                  v |-> fit_sf_tuning(args.sf_values, args.pref_sf_index, fit)]
    /\ UNCHANGED <<inputs, self, stats_runs, calls, accesses, driver>>

CallFitBoundary ==
    /\ ret.kind = "init"
    /\ ~IsInterior(args.sf_values, args.pref_sf_index)
    /\ \E fit \in curve_fit(ExpFits, Len(args.sf_values)) :
          ret' = [kind |-> "fit_sf_tuning", exc |-> "none",
                  v |-> fit_sf_tuning(args.sf_values, args.pref_sf_index, fit)]
    /\ UNCHANGED <<inputs, self, stats_runs, calls, accesses, driver>>

NextFit == CallFitInterior \/ CallFitBoundary

SpecFit == InitFit /\ [][NextFit]_vars

-----------------------------------------------------------------------------
(* get_sfdi *)

\* the most per-trial values get_sfdi is called on
MaxTrials == 6

\* the default of the bias parameter
DefaultBias == 5

\* a float64 result: "nan", "inf", or "finite" with the integers it is made of
Float(kind, parts) == [kind |-> kind, v |-> parts]

SeqMax(q) == CHOOSE x \in SeqRange(q) : \A y \in SeqRange(q) : y <= x

SeqMinimum(q) == CHOOSE x \in SeqRange(q) : \A y \in SeqRange(q) : x <= y

\* np.ptp: max - min
ptp(q) == SeqMax(q) - SeqMinimum(q)

\* get_sfdi in float64 arithmetic, where a division by zero gives inf or nan
\* and the square root of a negative number gives nan, neither raising.  With
\* n trials of sum S and sum of squares Q, np.sum((x - mean)**2) is
\* (n * Q - S * S) / n, and 0.0 for no trials.
get_sfdi(sf_tuning_responses, mean_sweeps_trials, bias) ==
    LET n == Len(mean_sweeps_trials)
        S == SeqSum(mean_sweeps_trials)
        Q == SeqSum([k \in DOMAIN mean_sweeps_trials |-> mean_sweeps_trials[k] ^ 2])
        nss == n * Q - S * S
        denom == n - bias
        range == ptp(sf_tuning_responses)
        \* sse_part = np.sqrt(np.sum(...) / (len(mean_sweeps_trials) - bias))
        sse_part ==
            IF denom = 0 THEN (IF nss > 0 THEN Float("inf", <<>>) ELSE Float("nan", <<>>))
            ELSE IF nss > 0 /\ denom < 0 THEN Float("nan", <<>>)
            ELSE Float("finite", <<nss, n * denom>>)
    IN  \* ptp / (ptp + 2 * sse_part)
        IF sse_part.kind = "nan" THEN Returned(Float("nan", <<>>))
        ELSE IF sse_part.kind = "inf" THEN Returned(Float("finite", <<0>>))
        ELSE IF range = 0 /\ nss = 0 THEN Returned(Float("nan", <<>>))
        ELSE Returned(Float("finite", <<range, sse_part.v>>))

RECURSIVE SeqsUpTo(_, _)
\* the sequences over S of length at most n
SeqsUpTo(S, n) ==
    IF n = 0 THEN { <<>> }
    ELSE SeqsUpTo(S, n - 1) \cup { Append(q, x) : q \in SeqsUpTo(S, n - 1), x \in S }

SfdiArgs ==
    { [sf_tuning_responses |-> r, mean_sweeps_trials |-> t, bias |-> b] :
        r \in { <<2>>, <<1, 3>>, <<0, 0, 4>> },
        t \in SeqsUpTo({0, 1}, MaxTrials),
        b \in { DefaultBias, 2 } }

InitSfdi == InitFunction(SfdiArgs)

CallGetSfdi ==
    /\ ret.kind = "init"
    /\ \E r \in { get_sfdi(args.sf_tuning_responses, args.mean_sweeps_trials, args.bias) } :
          ret' = [kind |-> "get_sfdi", exc |-> r.exc, v |-> r.v]
    /\ UNCHANGED <<inputs, self, stats_runs, calls, accesses, driver>>

NextSfdi == CallGetSfdi

SpecSfdi == InitSfdi /\ [][NextSfdi]_vars

-----------------------------------------------------------------------------
(* The simulation driver: main and simulate_sweep_from_file *)

\* the longest sweep-number sequence main is run on
MaxSweeps == 3

\* the sweep numbers a data configuration can name
SweepUniverse == {0, 1, 2}

\* the sampling rates of the sweeps, in Hz
SamplingRates == {50000, 200000}

\* what EphysDataSet(file_name).get_sweep(n) finds: a sweep it returns, or one
\* it raises on
Sweep(rate, stim) == [readable |-> TRUE, sampling_rate |-> rate, stimulus |-> stim]

Unreadable == [readable |-> FALSE, sampling_rate |-> 0, stimulus |-> 0]

\* every input file: each sweep unreadable, or readable at one of the sampling
\* rates with a stimulus of its own
InputFiles ==
    { [n \in SweepUniverse |-> IF c[n] = 0 THEN Unreadable ELSE Sweep(c[n], n + 1)] :
        c \in [SweepUniverse -> {0} \cup SamplingRates] }

\* 1.0 / sampling_rate, in millionths of a second
Reciprocal(rate) == Scale \div rate

\* neuron.run: the voltage is the neuron's answer to the stimulus at its dt
neuron_run(n, stimulus) == [stimulus |-> stimulus, dt |-> n.dt]

Step(event) == trace' = Append(trace, <<event, sweep_numbers[sweep_index]>>)

InitSim ==
    /\ stimulus_conditions = <<>>
    /\ unit_ids = <<>>
    /\ spike_mean = <<>>
    /\ self = StaticGratingsInit
    /\ stats_runs = 0
    /\ calls = NoCalls
    /\ accesses = [k \in Operations |-> 0]
    /\ args = <<>>
    /\ ret = [kind |-> "init", exc |-> "none", v |-> <<>>]
    /\ sweep_numbers \in SeqsUpTo(SweepUniverse, MaxSweeps)
    /\ input_file \in InputFiles
    /\ output_file = [n \in SweepUniverse |-> None]
    /\ neuron = [dt |-> None]
    /\ pc = "for"
    /\ sweep_index = 1
    /\ data = None
    /\ response = None
    /\ log = <<>>
    /\ trace = <<>>

analysis == <<stimulus_conditions, spike_mean, unit_ids, self, stats_runs, calls, accesses, args, ret>>

\* main once load_sweep has raised in iteration i, continuing with the next
\* sweep instead of re-raising
AfterLoadFailure_skip(i) == [pc |-> "for", sweep_index |-> i + 1]

\* main once load_sweep has raised in iteration i: the exception is re-raised
\* and nothing catches it
AfterLoadFailure(i) == [pc |-> "raised", sweep_index |-> i]

\* data = load_sweep(input_file_name, sweep_number)
LoadSweep ==
    /\ pc = "for"
    /\ sweep_index <= Len(sweep_numbers)
    /\ input_file[sweep_numbers[sweep_index]].readable
    /\ data' = Some(input_file[sweep_numbers[sweep_index]])
    /\ pc' = "set_dt"
    /\ Step("load")
    /\ UNCHANGED <<analysis, sweep_numbers, input_file, output_file, neuron, sweep_index,
                   response, log>>

\* load_sweep raises: the warning is logged and the exception raised again
LoadSweepFails ==
    /\ pc = "for"
    /\ sweep_index <= Len(sweep_numbers)
    /\ ~input_file[sweep_numbers[sweep_index]].readable
    /\ log' = Append(log, <<"Failed to load sweep, skipping.", sweep_numbers[sweep_index]>>)
    /\ pc' = AfterLoadFailure(sweep_index).pc
    /\ sweep_index' = AfterLoadFailure(sweep_index).sweep_index
    /\ Step("load_failed")
    /\ UNCHANGED <<analysis, sweep_numbers, input_file, output_file, neuron, data, response>>

\* neuron.dt = 1.0 / data['sampling_rate']
SetNeuronDt ==
    /\ pc = "set_dt"
    /\ neuron' = [neuron EXCEPT !.dt = Some(Reciprocal(data.v.sampling_rate))]
    /\ pc' = "simulate"
    /\ Step("dt")
    /\ UNCHANGED <<analysis, sweep_numbers, input_file, output_file, sweep_index, data,
                   response, log>>

\* response = simulate_sweep(neuron, data['stimulus'], ...)
SimulateSweep ==
    /\ pc = "simulate"
    /\ response' = Some(neuron_run(neuron, data.v.stimulus))
    /\ pc' = "write"
    /\ Step("simulate")
    /\ UNCHANGED <<analysis, sweep_numbers, input_file, output_file, neuron, sweep_index,
                   data, log>>

\* write_sweep_response(output_file_name, sweep_number, response), and on to
\* the next sweep number
WriteSweepResponse ==
    /\ pc = "write"
    /\ output_file' = [output_file EXCEPT ![sweep_numbers[sweep_index]] = response]
    /\ pc' = "for"
    /\ sweep_index' = sweep_index + 1
    /\ Step("write")
    /\ UNCHANGED <<analysis, sweep_numbers, input_file, neuron, data, response, log>>

\* the for loop is exhausted and main returns
MainReturns ==
    /\ pc = "for"
    /\ sweep_index > Len(sweep_numbers)
    /\ pc' = "done"
    /\ UNCHANGED <<analysis, sweep_numbers, input_file, output_file, neuron, sweep_index,
                   data, response, log, trace>>

NextSim ==
    \/ LoadSweep
    \/ LoadSweepFails
    \/ SetNeuronDt
    \/ SimulateSweep
    \/ WriteSweepResponse
    \/ MainReturns

SpecSim == InitSim /\ [][NextSim]_vars

-----------------------------------------------------------------------------
(* Properties of the per-unit methods (SpecCalls) *)

\* the conditions of the table showing value in column col
ConditionsShowing(col, value) ==
    { c \in DOMAIN stimulus_conditions : stimulus_conditions[c][col] = value }

\* the unit's mean response over the conditions showing value, as sum / count
MeanAt(unit, col, value) ==
    [s |-> SumOver([c \in ConditionsShowing(col, value) |-> spike_mean[<<unit, c>>]],
                   ConditionsShowing(col, value)),
     n |-> Cardinality(ConditionsShowing(col, value))]

PrefColumn(kind) ==
    CASE kind = "_get_pref_sf" -> _col_sf
      [] kind = "_get_pref_ori" -> _col_ori
      [] kind = "_get_pref_phase" -> _col_phase

PrefReturned ==
    /\ ret.kind \in {"_get_pref_sf", "_get_pref_ori", "_get_pref_phase"}
    /\ ret.exc = "none"

\* C1: a preferred-value search that returns, returns a value of its axis whose
\* mean response is the largest over the axis, and no smaller axis value has a
\* mean response as large (the first maximiser in ascending axis order).
C1_PrefIsFirstMaximiser ==
    PrefReturned =>
        LET unit == ret.v[1]
            pref == ret.v[2]
            col == PrefColumn(ret.kind)
        IN  /\ pref \in UniqueNonNull(col)
            /\ \A w \in UniqueNonNull(col) :
                  ~MeanLess(MeanAt(unit, col, pref), MeanAt(unit, col, w))
            /\ \A w \in UniqueNonNull(col) :
                  w < pref => MeanLess(MeanAt(unit, col, w), MeanAt(unit, col, pref))

\* a search returned the smaller of two axis values that tie for the maximum,
\* the means being taken over different numbers of conditions
C1_Witness ==
    /\ PrefReturned
    /\ \E w \in UniqueNonNull(PrefColumn(ret.kind)) :
          /\ w > ret.v[2]
          /\ ~MeanLess(MeanAt(ret.v[1], PrefColumn(ret.kind), w),
                       MeanAt(ret.v[1], PrefColumn(ret.kind), ret.v[2]))
          /\ MeanAt(ret.v[1], PrefColumn(ret.kind), w).n
                # MeanAt(ret.v[1], PrefColumn(ret.kind), ret.v[2]).n
          /\ MeanAt(ret.v[1], PrefColumn(ret.kind), w).s > 0

IsAscending(q) == \A i \in DOMAIN q : \A j \in DOMAIN q : i < j => q[i] < q[j]

AxisHolds(axis, col) ==
    /\ ~axis.isNone
    /\ IsAscending(axis.v)
    /\ SeqRange(axis.v) = UniqueNonNull(col)
    /\ Null \notin SeqRange(axis.v)

CountIs(number, axis) ==
    /\ ~number.isNone
    /\ ~axis.isNone
    /\ number.v = Len(axis.v)

\* C2: once dimension discovery has run, each axis holds the distinct non-null
\* values of its column in ascending order and each stored count is the length
\* of its axis, number_phase included.
C2_AxesAndCounts ==
    stats_runs > 0 =>
        /\ AxisHolds(self._orivals, _col_ori)
        /\ AxisHolds(self._sfvals, _col_sf)
        /\ AxisHolds(self._phasevals, _col_phase)
        /\ CountIs(self._number_ori, self._orivals)
        /\ CountIs(self._number_sf, self._sfvals)
        /\ CountIs(self._number_phase, self._phasevals)

\* the conditions _get_osi selects for the call just made
OsiSelected ==
    { c \in DOMAIN stimulus_conditions :
        /\ stimulus_conditions[c][_col_sf] = ret.v[2]
        /\ stimulus_conditions[c][_col_phase] = ret.v[3] }

\* C9: when every response of the unit over the conditions at its preferred
\* spatial frequency and preferred phase is zero, _get_osi raises
\* UndefinedIndexError and returns nothing.
C9_AllZeroRaises ==
    (/\ ret.kind = "_get_osi"
     /\ \A c \in OsiSelected : spike_mean[<<ret.v[1], c>>] = 0)
        => ret.exc = "UndefinedIndexError"

\* _get_osi raised on a selected condition set that is not empty
C9_Witness ==
    /\ ret.kind = "_get_osi"
    /\ ret.exc = "UndefinedIndexError"
    /\ OsiSelected # {}
    /\ \A c \in OsiSelected : spike_mean[<<ret.v[1], c>>] = 0

-----------------------------------------------------------------------------
(* Properties of the metrics table (Spec) *)

MetricsStored == ~self._metrics.isNone

CalledOnce(u, fns) == \A f \in fns : calls[u][f] = 1

C4_ComputedOnceAndCached ==
    /\ [](accesses["metrics"] = 0 => ~MetricsStored)
    /\ [][MetricsStored => (self'._metrics = self._metrics /\ calls' = calls)]_vars

\* metrics was asked for twice and returned the stored table of two units
C4_Witness ==
    /\ accesses["metrics"] = 2
    /\ MetricsStored
    /\ Len(unit_ids) = 2
    /\ ret.kind = "metrics"
    /\ ret.exc = "none"
    /\ ret.v = self._metrics.v
    /\ \A k \in DOMAIN unit_ids : calls[unit_ids[k]]["_get_osi"] = 1

CollaboratorCell(c) == \E k \in DOMAIN CollaboratorColumns : CollaboratorColumns[k] = c

C11_AxesDiscoveredOnce ==
    [][(stats_runs > 0 /\ accesses' # accesses /\ ret'.kind \in AxisAttributes)
          => stats_runs' = stats_runs]_vars

-----------------------------------------------------------------------------
(* Properties of fit_sf_tuning (SpecFit) *)

FitReturned == ret.kind = "fit_sf_tuning"

InteriorCall == IsInterior(args.sf_values, args.pref_sf_index)

Defined(x) == x.kind # "nan"

\* the Gaussian curve of the call just made, over the dense grid
FittedGauss == [i \in 0..GridLast |-> gauss_function(i, ret.v.popt)]

\* C6: an interior call returns to its caller, and when its fit stage failed,
\* in curve_fit or while the half-max crossings were extracted, all four
\* outputs are NaN.
C6_FailureLeavesAllUndefined ==
    (FitReturned /\ InteriorCall) =>
        /\ ret.exc = "none"
        /\ ret.v.failed # "none" => \A k \in 1..4 : ~Defined(ret.v.out[k])

\* C7: after an interior call whose fit stage succeeded, the low cutoff is
\* defined exactly when the low crossing is not the first grid sample, and the
\* high cutoff exactly when the high crossing is not the last grid sample.
C7_CutoffsIndependent ==
    (FitReturned /\ InteriorCall /\ ret.v.failed = "none") =>
        /\ Defined(ret.v.out[3]) <=> low_cut_ind(FittedGauss).v # 0
        /\ Defined(ret.v.out[4]) <=> high_cut_ind(FittedGauss) # GridLast

\* C8: a boundary call reports the given index and sf_values at that index,
\* whatever the exponential fit did; the low cutoff is NaN when the index is 0
\* and the high cutoff is NaN when the index is the last one.
C8_BoundaryReportsGiven ==
    (FitReturned /\ ~InteriorCall) =>
        /\ ret.v.out[1] = GivenIndex(args.pref_sf_index)
        /\ ret.v.out[2] = GivenValue(args.sf_values[args.pref_sf_index + 1])
        /\ args.pref_sf_index = 0 => ~Defined(ret.v.out[3])
        /\ args.pref_sf_index = Len(args.sf_values) - 1 => ~Defined(ret.v.out[4])

\* a call at index 0 of a five-value axis whose exponential fit succeeded and
\* gave a high cutoff
C8_Witness ==
    /\ FitReturned
    /\ args.pref_sf_index = 0
    /\ Len(args.sf_values) = MaxSf
    /\ ret.v.failed = "none"
    /\ Defined(ret.v.out[4])
    /\ ~Defined(ret.v.out[3])
    /\ ret.v.out[2] = GivenValue(2)

-----------------------------------------------------------------------------
(* Properties of get_sfdi (SpecSfdi) *)

\* C10: get_sfdi raises whenever the number of per-trial values is not larger
\* than bias; it returns nothing then.
C10_DegenerateDenominatorRaises ==
    (/\ ret.kind = "get_sfdi"
     /\ Len(args.mean_sweeps_trials) - args.bias <= 0)
        => ret.exc # "none"

-----------------------------------------------------------------------------
(* Properties of the simulation driver (SpecSim) *)

RECURSIVE StepsFrom(_)
\* the steps a run takes from position k of sweep_numbers on: four per sweep,
\* in sequence order, up to and including the first sweep that fails to load
StepsFrom(k) ==
    IF k > Len(sweep_numbers) THEN <<>>
    ELSE LET n == sweep_numbers[k]
         IN  IF input_file[n].readable
             THEN <<<<"load", n>>, <<"dt", n>>, <<"simulate", n>>, <<"write", n>>>>
                      \o StepsFrom(k + 1)
             ELSE <<<<"load_failed", n>>>>

IsPrefix(p, q) == Len(p) <= Len(q) /\ \A k \in 1..Len(p) : p[k] = q[k]

\* the sweep numbers whose response has been written so far
Written == { trace[k][2] : k \in { j \in DOMAIN trace : trace[j][1] = "write" } }

LoadFailed == trace # <<>> /\ trace[Len(trace)][1] = "load_failed"

\* C12: the steps taken are, in the order of sweep_numbers, load, set dt,
\* simulate, write for each sweep; every response in the output file was
\* simulated at the dt of its own sweep's sampling rate; and once a load has
\* failed the warning is logged, main has raised, and the output file holds
\* the responses of the earlier sweeps and nothing else.
C12_InOrderAndStopsAtLoadFailure ==
    pc # "idle" =>
        /\ IsPrefix(trace, StepsFrom(1))
        /\ \A n \in SweepUniverse :
              /\ ~output_file[n].isNone <=> n \in Written
              /\ n \in Written =>
                    output_file[n].v =
                        [stimulus |-> input_file[n].stimulus,
                         dt |-> Some(Scale \div input_file[n].sampling_rate)]
        /\ LoadFailed =>
              /\ pc = "raised"
              /\ log = <<<<"Failed to load sweep, skipping.", sweep_numbers[sweep_index]>>>>
              /\ Written = { sweep_numbers[k] : k \in 1..(sweep_index - 1) }
        /\ ~LoadFailed => log = <<>>

\* a run that wrote one sweep's response, then failed to load the second of
\* three sweeps, the third being readable
C12_Witness ==
    /\ pc = "raised"
    /\ Len(sweep_numbers) = 3
    /\ sweep_index = 2
    /\ ~output_file[sweep_numbers[1]].isNone
    /\ input_file[sweep_numbers[3]].readable
    /\ sweep_numbers[3] # sweep_numbers[1]
    /\ output_file[sweep_numbers[3]].isNone

====
